---- MODULE Spec2Model ----
(***************************************************************************)
(* pandoc-chemfig: a pandoc JSON filter that numbers figures per class,    *)
(* renders them for LaTeX/PDF or decorates their captions for every other  *)
(* format, and resolves citation-style references to them.                 *)
(*                                                                         *)
(* Two programs live in the repository: the package                        *)
(* (src/pandoc_chemfig/pandoc_chemfig.py, pandoc "Figure" nodes) and the   *)
(* older script (src/pandoc-chemfig.py, flat "Image" nodes).  Both hand    *)
(* [process_images, parse_refs] to pandocfilters.toJSONFilters, which      *)
(* walks the whole document once per action, in list order.                *)
(*                                                                         *)
(* Representation.  A pandoc JSON node {"t": T, "c": ...} is a record with *)
(* field t and one named field per component of c.  The Python strings of  *)
(* the input that the code inspects or formats (identifiers, class names,  *)
(* key/value values, the target path, citation text) are sequences of      *)
(* one-character strings; the texts the code produces are TLA+ strings,    *)
(* and Join turns the former into the latter.                              *)
(***************************************************************************)
EXTENDS Naturals, Sequences, FiniteSets, TLC

VARIABLES
    program,        \* "package" or "script": which of the two filters runs
    fmt,            \* the output format pandoc passes to every call
    meta,           \* the document metadata pandoc passes to every call
    known_ids,      \* module global: id_tag -> label (decimal string)
    known_classes,  \* module global: class name -> count
    doc,            \* the document nodes read so far, as they were read
    tree,           \* the document tree as rewritten so far
    pass,           \* index into Actions of the walk in progress
    pos,            \* second walk: index in tree of the next node
    pc,             \* "walk", "done", or "error" (uncaught exception)
    last,           \* the most recent call: input, result, registry before
    numbered        \* history: one entry per figure rewritten, in order

vars == <<program, fmt, meta, known_ids, known_classes, doc, tree, pass,
          pos, pc, last, numbered>>

-----------------------------------------------------------------------------
(* Bounds *)

\* Longest document (top-level nodes) of the two-pass specification.
MaxDoc == 3

\* Most figures handed to process_images in the layout specification.
MaxLayoutFigs == 1

-----------------------------------------------------------------------------
(* Strings *)

RECURSIVE Join(_)
Join(cs) ==
    IF cs = <<>> THEN ""
    ELSE IF Len(cs) = 1 THEN cs[1]
    ELSE LET h == Len(cs) \div 2
         IN Join(SubSeq(cs, 1, h)) \o Join(SubSeq(cs, h + 1, Len(cs)))

Lowers == <<"a","b","c","d","e","f","g","h","i","j","k","l","m",
            "n","o","p","q","r","s","t","u","v","w","x","y","z">>
Uppers == <<"A","B","C","D","E","F","G","H","I","J","K","L","M",
            "N","O","P","Q","R","S","T","U","V","W","X","Y","Z">>

ToUpper(c) == IF \E i \in 1..Len(Lowers) : Lowers[i] = c
              THEN Uppers[CHOOSE i \in 1..Len(Lowers) : Lowers[i] = c]
              ELSE c
ToLower(c) == IF \E i \in 1..Len(Uppers) : Uppers[i] = c
              THEN Lowers[CHOOSE i \in 1..Len(Uppers) : Uppers[i] = c]
              ELSE c

\* str.capitalize(): first character upper-cased, the rest lower-cased.
Capitalize(cs) ==
    [i \in 1..Len(cs) |-> IF i = 1 THEN ToUpper(cs[i]) ELSE ToLower(cs[i])]

Digits == <<"0","1","2","3","4","5","6","7","8","9">>

\* str(n) for a natural number: its decimal digits, no leading zeros.
RECURSIVE DecStr(_)
DecStr(n) == IF n < 10 THEN Digits[n + 1]
             ELSE DecStr(n \div 10) \o Digits[(n % 10) + 1]

-----------------------------------------------------------------------------
(* pandocfilters element constructors (elt) and JSON shapes *)

None == [t |-> "None"]
Str(s) == [t |-> "Str", s |-> s]
Strong(xs) == [t |-> "Strong", xs |-> xs]
Emph(xs) == [t |-> "Emph", xs |-> xs]
RawInline(f, s) == [t |-> "RawInline", f |-> f, s |-> s]
Plain(xs) == [t |-> "Plain", xs |-> xs]
Para(xs) == [t |-> "Para", xs |-> xs]
\* attrs = [identifier, classes, key/value pairs]
Attr(id, classes, kvs) == [id |-> id, classes |-> classes, kvs |-> kvs]
\* c = [attrs, caption inlines, target]
Image(attrs, caption, target) ==
    [t |-> "Image", attrs |-> attrs, caption |-> caption, target |-> target]
\* c = [attrs, caption, content]; caption is the JSON list [short, blocks]
Figure(attrs, caption, content) ==
    [t |-> "Figure", attrs |-> attrs, caption |-> caption, content |-> content]
\* c = [citations, inlines]; text is the string at val[1][0]['c'], the
\* content of the first inline
Cite(text) == [t |-> "Cite", text |-> text]
\* A Python list returned by an action (spliced into the parent by walk).
List(xs) == [t |-> "List", xs |-> xs]

\* Python's `k in d` and d[k] for the dictionary built from a list of
\* [key, value] pairs, later pairs overwriting earlier ones.
HasKey(kvs, k) == \E i \in 1..Len(kvs) : kvs[i][1] = k
GetKey(kvs, k) ==
    kvs[CHOOSE i \in 1..Len(kvs) :
            /\ kvs[i][1] = k
            /\ \A j \in 1..Len(kvs) : kvs[j][1] = k => j <= i][2]

\* What a call leaves behind: the value returned (None: no replacement),
\* the uncaught exception if any, and the two module globals.
Result(ret, exc, ids, classes) ==
    [ret |-> ret, exc |-> exc, known_ids |-> ids, known_classes |-> classes]

-----------------------------------------------------------------------------
(* REF_PAT and parse_refs *)

\* \s of a str pattern, on the ASCII range: space, \t, \n, \r, \f, and
\* the control characters \x0b, \x1c, \x1d, \x1e, \x1f (written raw in
\* the second row).  \s also matches the Unicode spaces from \x85 on;
\* the texts modelled here are ASCII.
IsSpace(c) ==
    c \in {" ", "\t", "\n", "\r", "\f",
           "", "", "", "", ""}

\* REF_PAT.match(text): \[?@([^\s\]]*)\]? anchored at the start of text.
\* Start is the index of the "@" (after the optional "["), 0 if no match.
RefStart(text) ==
    IF Len(text) >= 1 /\ text[1] = "@" THEN 1
    ELSE IF Len(text) >= 2 /\ text[1] = "[" /\ text[2] = "@" THEN 2
    ELSE 0

RefMatches(text) == RefStart(text) # 0

\* .groups()[0]: the longest run after "@" of characters that are neither
\* whitespace nor "]".
RefGroup(text) ==
    LET s == RefStart(text)
        stop(i) == IsSpace(text[i]) \/ text[i] = "]"
        ends == {e \in s..Len(text) : \A i \in (s + 1)..e : ~stop(i)}
        e == CHOOSE x \in ends : \A y \in ends : y <= x
    IN SubSeq(text, s + 1, e)

\* A replacement that is the number in every format.
RefReplacementNumberForAll(f, id_tag, ids) == Str(ids[id_tag])

\* The replacement for a known id_tag: \ref{id_tag} in the raw format for
\* latex and pdf, the recorded label otherwise.
RefReplacement(f, id_tag, ids) ==
    IF f \in {"latex", "pdf"}
    THEN RawInline(f, "\\ref{" \o id_tag \o "}")
    ELSE Str(ids[id_tag])

\* A resolver that substitutes the empty string for an unknown id_tag.
parse_refs_unknown_blank(key, val, f, m, ids) ==
    IF key = "Cite" /\ RefMatches(val.text)
    THEN LET id_tag == Join(RefGroup(val.text))
         IN IF id_tag \in DOMAIN ids THEN RefReplacement(f, id_tag, ids)
            ELSE Str("")
    ELSE None

parse_refs(key, val, f, m, ids) ==
    IF key = "Cite"
    THEN IF RefMatches(val.text)
         THEN LET id_tag == Join(RefGroup(val.text))
              IN IF id_tag \in DOMAIN ids
                 THEN RefReplacement(f, id_tag, ids)
                 ELSE None
         ELSE None
    ELSE None

-----------------------------------------------------------------------------
(* process_images of the package: pandoc "Figure" nodes *)

\* A counter shared by every class.
CountFigureShared(classes, cls) ==
    LET vals == {classes[c] : c \in DOMAIN classes}
        total == IF vals = {} THEN 0
                 ELSE CHOOSE n \in vals : \A k \in vals : k <= n
    IN (cls :> total + 1) @@ classes

\* "Increment counter for figure types": known_classes after the update.
CountFigure(classes, cls) ==
    IF cls \in DOMAIN classes
    THEN [classes EXCEPT ![cls] = @ + 1]
    ELSE (cls :> 1) @@ classes

\* "Assign figure/scheme/chart/graph number":
\* known_ids[image_id] = str(known_classes[image_class]).
RecordLabel(ids, id, classes, cls) == (id :> DecStr(classes[cls])) @@ ids

\* The flag the layout branch tests.  It is initialised to False and never
\* assigned again: the 'lpos' branch assigns latex_fix_place instead.
latex_fig_place(kvs) == FALSE

\* "Only use \caption command if caption is not empty."  fig_caption is
\* the JSON list [short, blocks]; the inlines are fig_caption[1][0]['c'].
caption_text(f, fig_caption) ==
    IF fig_caption # <<>>
    THEN <<RawInline(f, "\\caption{")>>
         \o fig_caption[2][1].xs
         \o <<RawInline(f, "}")>>
    ELSE <<>>

\* fig_caption[1][0] raises IndexError when the block list is empty.
caption_text_raises(fig_caption) ==
    fig_caption # <<>> /\ fig_caption[2] = <<>>

latex_wrap_pos(kvs) ==
    IF HasKey(kvs, "wpos") THEN GetKey(kvs, "wpos") ELSE <<"r">>

latex_suffix(kvs) == IF HasKey(kvs, "lts") THEN GetKey(kvs, "lts") ELSE <<>>

\* Columns of indentation of the templates in the source: the wrapfloat
\* and default templates, and the explicit-placement template.
TemplateIndent == 24
PlaceIndent == 28

Indent(n) == [i \in 1..n |-> " "]
NL == <<"\n">>

\* The index of the first newline of t at or after k, or Len(t) + 1.
RECURSIVE NextNewline(_, _)
NextNewline(t, k) ==
    IF k > Len(t) \/ t[k] = "\n" THEN k ELSE NextNewline(t, k + 1)

\* text.split('\n'): the lines of a text given as a sequence of tokens,
\* each token one character of a substituted value, a newline, a space of
\* indentation, or a piece of the template without either.
RECURSIVE SplitLines(_)
SplitLines(t) ==
    LET i == NextNewline(t, 1)
    IN IF i > Len(t) THEN <<t>>
       ELSE <<SubSeq(t, 1, i - 1)>> \o SplitLines(SubSeq(t, i + 1, Len(t)))

RECURSIVE JoinLines(_)
JoinLines(ls) ==
    IF Len(ls) = 1 THEN ls[1]
    ELSE ls[1] \o NL \o JoinLines(Tail(ls))

\* A line with a character other than a space or a tab.
IsContent(l) == \E i \in 1..Len(l) : l[i] \notin {" ", "\t"}

\* The length of the longest run of spaces and tabs that the lines cl, all
\* with content, start with, given that they share their first k - 1
\* characters and these are spaces and tabs.
RECURSIVE CommonMargin(_, _)
CommonMargin(cl, k) ==
    IF \A a \in 1..Len(cl) :
          cl[a][k] \in {" ", "\t"} /\ cl[a][k] = cl[1][k]
    THEN CommonMargin(cl, k + 1)
    ELSE k - 1

StripLine(l, margin) ==
    IF IsContent(l) THEN SubSeq(l, margin + 1, Len(l)) ELSE <<>>

\* textwrap.dedent: lines of spaces and tabs only become empty, and the
\* longest run of spaces and tabs that every other non-empty line starts
\* with is removed from each of them.
dedent(t) ==
    LET ls == SplitLines(t)
        cl == SelectSeq(ls, IsContent)
        margin == IF cl = <<>> THEN 0 ELSE CommonMargin(cl, 1)
    IN JoinLines([n \in 1..Len(ls) |-> StripLine(ls[n], margin)])

\* One RawInline: the formatted template, dedented.
RawText(f, t) == RawInline(f, Join(dedent(t)))

\* The wrapfloat layout.  The template ends with a newline and the
\* indentation of the line that closes the string.
wrap_layout(f, env, kvs, file, image_id, cap) ==
    LET ind == Indent(TemplateIndent)
    IN <<RawText(f, NL \o ind \o <<"\\begin{wrapfloat}{">> \o env
                    \o <<"}{">> \o latex_wrap_pos(kvs)
                    \o <<"}{">> \o GetKey(kvs, "wwidth") \o <<"}">>
                    \o NL \o ind \o <<"\\centering">>
                    \o NL \o ind \o <<"\\includegraphics{">> \o file
                    \o <<"}">> \o NL \o ind)>>
       \o cap
       \o <<RawText(f, NL \o ind \o <<"\\label{">> \o image_id \o <<"}">>
                       \o NL \o ind \o <<"\\end{wrapfloat}">>
                       \o NL \o ind)>>

\* The explicit-placement layout.
place_layout(f, env, kvs, file, image_id, cap) ==
    LET ind == Indent(PlaceIndent)
    IN <<RawText(f, NL \o ind \o <<"\\begin{">> \o env \o <<"}[">>
                    \o GetKey(kvs, "lpos") \o <<"]">>
                    \o NL \o ind \o <<"\\centering">>
                    \o NL \o ind \o <<"\\includegraphics{">> \o file
                    \o <<"}">>)>>
       \o cap
       \o <<RawText(f, NL \o ind \o <<"\\label{">> \o image_id \o <<"}">>
                       \o NL \o ind \o <<"\\end{">> \o env \o <<"}">>
                       \o NL \o ind)>>

\* The default layout.
default_layout(f, env, kvs, file, image_id, cap) ==
    LET ind == Indent(TemplateIndent)
    IN <<RawText(f, NL \o ind \o <<"\\begin{">> \o env \o <<"}">>
                    \o NL \o ind \o <<"\\centering">>
                    \o NL \o ind \o <<"\\includegraphics{">> \o file
                    \o <<"}">>)>>
       \o cap
       \o <<RawText(f, NL \o ind \o <<"\\label{">> \o image_id \o <<"}">>
                       \o NL \o ind \o <<"\\end{">> \o env \o <<"}">>
                       \o NL \o ind)>>

\* A layout choice that lets 'lpos' win over 'wwidth'.
raw_text_place_first(f, image_class, kvs, file, image_id, cap) ==
    LET env == image_class \o latex_suffix(kvs)
    IN IF HasKey(kvs, "lpos")
       THEN place_layout(f, env, kvs, file, image_id, cap)
       ELSE IF HasKey(kvs, "wwidth")
       THEN wrap_layout(f, env, kvs, file, image_id, cap)
       ELSE default_layout(f, env, kvs, file, image_id, cap)

\* if latex_wrap ... elif latex_fig_place ... else: the environment is
\* named image_class+latex_suffix.
raw_text(f, image_class, kvs, file, image_id, cap) ==
    LET env == image_class \o latex_suffix(kvs)
    IN IF HasKey(kvs, "wwidth")
       THEN wrap_layout(f, env, kvs, file, image_id, cap)
       ELSE IF latex_fig_place(kvs)
       THEN place_layout(f, env, kvs, file, image_id, cap)
       ELSE default_layout(f, env, kvs, file, image_id, cap)

\* "Default labels, suffix, and format", overridden by meta['fig-abbr'].
DefaultLabel(image_class) ==
    <<Strong(<<Str(Join(Capitalize(image_class)) \o " ")>>)>>

caption_label(m, image_class) ==
    IF "fig-abbr" \in DOMAIN m
       /\ Join(image_class) \in DOMAIN m["fig-abbr"].c
    THEN m["fig-abbr"].c[Join(image_class)].c
    ELSE DefaultLabel(image_class)

caption_suffix(m) ==
    IF "fig-abbr" \in DOMAIN m /\ "suffix" \in DOMAIN m["fig-abbr"].c
    THEN m["fig-abbr"].c["suffix"].c
    ELSE <<Strong(<<Str(". ")>>)>>

\* "Label takes format of abbreviation."
caption_number(label, text) ==
    IF label[1].t = "Strong" THEN <<Strong(<<Str(text)>>)>>
    ELSE IF label[1].t = "Emph" THEN <<Emph(<<Str(text)>>)>>
    ELSE <<Str(text)>>

process_images(key, val, f, m, ids, classes) ==
    IF key # "Figure" THEN Result(None, "", ids, classes)
    ELSE
    LET fig_attrs == val.attrs
        fig_caption == val.caption
        image == val.content[1].xs[1]
        image_attrs == image.attrs
    IN
    \* image_attrs[1][0] on an empty class list
    IF image_attrs.classes = <<>>
    THEN Result(None, "IndexError", ids, classes)
    ELSE
    LET image_class == image_attrs.classes[1]
        image_caption == image.caption
        image_target == image.target
        kvs == image_attrs.kvs
    IN
    IF ~(image_class # <<>> /\ fig_caption # <<>>)
    THEN Result(None, "", ids, classes)
    ELSE
    LET classes1 == CountFigure(classes, Join(image_class)) IN
    \* image_id is bound only `if fig_attrs[0]`
    IF fig_attrs.id = <<>>
    THEN Result(None, "UnboundLocalError", ids, classes1)
    ELSE
    LET image_id == fig_attrs.id
        ids1 == RecordLabel(ids, Join(image_id), classes1,
                            Join(image_class))
    IN
    IF f \in {"latex", "pdf"}
    THEN IF caption_text_raises(fig_caption)
         THEN Result(None, "IndexError", ids1, classes1)
         ELSE Result(Para(raw_text(f, image_class, kvs,
                                   image_target[1], image_id,
                                   caption_text(f, fig_caption))),
                     "", ids1, classes1)
    ELSE
    LET label == caption_label(m, image_class)
        suffix == caption_suffix(m)
    IN
    \* label[0] on an empty label
    IF label = <<>>
    THEN Result(None, "IndexError", ids1, classes1)
    ELSE
    LET number == caption_number(label, ids1[Join(image_id)])
        new_caption == label \o number \o suffix \o image_caption
        new_image == Image(image_attrs, new_caption, image_target)
    IN Result(Figure(fig_attrs, <<None, <<Plain(new_caption)>>>>,
                     <<Plain(<<new_image>>)>>),
              "", ids1, classes1)

-----------------------------------------------------------------------------
(* process_images of the script: flat "Image" nodes *)

\* Columns of indentation of the script's templates, and of the line that
\* closes the second one.
ScriptIndent == 24
ScriptCloseIndent == 28

ALT_LATEX_FIGS == {"scheme", "chart", "graph"}

process_images_script(key, val, f, m, ids, classes) ==
    IF key # "Image" THEN Result(None, "", ids, classes)
    ELSE
    LET attrs == val.attrs
        caption == val.caption
        target == val.target
    IN
    IF attrs.classes = <<>> THEN Result(None, "", ids, classes)
    ELSE
    LET cls == attrs.classes[1]
        classes1 == CountFigure(classes, Join(cls))
        ids1 == RecordLabel(ids, Join(attrs.id), classes1, Join(cls))
        ind == Indent(ScriptIndent)
    IN
    IF f \in {"latex", "pdf"}
    THEN IF Join(cls) \notin ALT_LATEX_FIGS
         THEN Result(Image(attrs, caption, target), "", ids1, classes1)
         ELSE Result(List(
                  <<RawText(f, ind \o <<"\\begin{">> \o cls \o <<"}">>
                               \o NL \o ind \o <<"\\centering">>
                               \o NL \o ind \o <<"\\caption{">>)>>
                  \o caption
                  \o <<RawText(f, ind \o <<"}\\label{">> \o attrs.id
                                  \o <<"}">>
                                  \o NL \o ind \o <<"\\includegraphics{">>
                                  \o target[1] \o <<"}">>
                                  \o NL \o ind \o <<"\\end{">> \o cls
                                  \o <<"}">>
                                  \o NL \o Indent(ScriptCloseIndent))>>),
                  "", ids1, classes1)
    ELSE
    LET new_caption == <<Str(Join(Capitalize(cls)) \o " "
                             \o ids1[Join(attrs.id)] \o ". ")>> \o caption
    IN Result(Image(attrs, new_caption, target), "", ids1, classes1)

-----------------------------------------------------------------------------
(* Inputs: output formats, metadata and document nodes *)

Formats == {"latex", "pdf", "html"}

MetaInlines(xs) == [t |-> "MetaInlines", c |-> xs]
MetaMap(f) == [t |-> "MetaMap", c |-> f]

\* No fig-abbr entry at all.
NoMeta == <<>>
\* fig-abbr: {scheme: *Sch. *}
MetaEmph ==
    "fig-abbr" :> MetaMap("scheme" :> MetaInlines(<<Emph(<<Str("Sch. ")>>)>>))
\* fig-abbr: {scheme: "Scheme ", chart: **Ch. **, suffix: ": "}
MetaPlain ==
    "fig-abbr" :> MetaMap(
        ("scheme" :> MetaInlines(<<Str("Scheme"), Str(" ")>>))
        @@ ("chart" :> MetaInlines(<<Strong(<<Str("Ch. ")>>)>>))
        @@ ("suffix" :> MetaInlines(<<Str(": ")>>)))

Metas == {NoMeta, MetaEmph, MetaPlain}

rx1 == <<"r", "x", "1">>
rx2 == <<"r", "x", "2">>
Ids == {<<>>, rx1, rx2}

scheme == <<"s", "c", "h", "e", "m", "e">>
chart == <<"c", "h", "a", "r", "t">>
figure == <<"f", "i", "g", "u", "r", "e">>

Target == <<<<"a", ".", "p", "d", "f">>, <<>>>>

\* The caption of a Figure: [short, blocks].
FullCaption == <<None, <<Plain(<<Str("cap")>>)>>>>
EmptyCaption == <<None, <<>>>>
\* The empty list process_images compares fig_caption with.
NoCaption == <<>>

\* A Figure as pandoc builds it: the identifier on the figure, the classes
\* and key/value pairs on the image it wraps.
FigureNode(id, classes, kvs, cap) ==
    Figure(Attr(id, <<>>, <<>>), cap,
           <<Plain(<<Image(Attr(<<>>, classes, kvs), <<Str("alt")>>, Target)>>)>>)

ImageNode(id, classes) ==
    Image(Attr(id, classes, <<>>), <<Str("cap")>>, Target)

\* The last text holds a vertical tab (\x0b) after the identifier.
CiteTexts == {
    <<"@", "r", "x", "1">>,
    <<"[", "@", "r", "x", "2", "]">>,
    <<"r", "x", "1">>,
    <<"@", "k", "9">>,
    <<"@", "r", "x", "1", "", "x">> }

Cites == {Cite(x) : x \in CiteTexts}

DocFigures ==
    {FigureNode(id, cl, <<>>, cap) :
        id \in Ids, cl \in {<<>>, <<scheme>>, <<chart>>},
        cap \in {FullCaption}}

\* The script predates Figure nodes: its documents hold flat images.
DocNodes(prog) ==
    IF prog = "package"
    THEN DocFigures \cup {ImageNode(rx1, <<scheme>>), ImageNode(<<>>, <<>>)}
         \cup Cites
    ELSE {ImageNode(id, cl) :
            id \in Ids, cl \in {<<>>, <<scheme>>, <<figure>>}}
         \cup Cites

\* The wwidth values: none, a length, and a length broken over two lines.
Widths == {<<>>, <<"5", "c", "m">>, <<"5", "\n", "c", "m">>}

\* Every combination of the four recognised keys.
KeyLists ==
    {  (IF w # <<>> THEN <<<<"wwidth", w>>>> ELSE <<>>)
    \o (IF p THEN <<<<"wpos", <<"l">>>>>> ELSE <<>>)
    \o (IF l THEN <<<<"lpos", <<"t">>>>>> ELSE <<>>)
    \o (IF s THEN <<<<"lts", <<"*">>>>>> ELSE <<>>) :
       w \in Widths, p \in BOOLEAN, l \in BOOLEAN, s \in BOOLEAN }

LayoutFigures ==
    {FigureNode(id, cl, kvs, cap) :
        id \in {<<>>, rx1}, cl \in {<<>>, <<scheme>>},
        kvs \in KeyLists, cap \in {NoCaption, EmptyCaption, FullCaption}}

-----------------------------------------------------------------------------
(* The driver: toJSONFilters([process_images, parse_refs]) *)

\* A single-pass order: references resolved before figures are numbered.
ActionsRefsFirst == <<"parse_refs", "process_images">>

\* The list main() hands to toJSONFilters, which walks the whole document
\* with the first action and then the result with the second.
Actions == <<"process_images", "parse_refs">>

Call(name, n) ==
    IF name = "process_images"
    THEN IF program = "package"
         THEN process_images(n.t, n, fmt, meta, known_ids, known_classes)
         ELSE process_images_script(n.t, n, fmt, meta, known_ids,
                                    known_classes)
    ELSE Result(parse_refs(n.t, n, fmt, meta, known_ids), "",
                known_ids, known_classes)

\* walk: None keeps the node, a list is spliced in, a node replaces it.
Splice(n, ret) ==
    IF ret = None THEN <<n>>
    ELSE IF ret.t = "List" THEN ret.xs
    ELSE <<ret>>

\* The class and identifier process_images reads from a figure node.
FigClass(n) ==
    IF n.t = "Figure" THEN Join(n.content[1].xs[1].attrs.classes[1])
    ELSE Join(n.attrs.classes[1])
FigId(n) == Join(n.attrs.id)

Rewrote(name, r) == name = "process_images" /\ r.exc = "" /\ r.ret # None

\* One call of an action on node n: the globals, the call record and the
\* history after it.  An uncaught exception ends the run.
Visit(name, n, r) ==
    /\ known_ids' = r.known_ids
    /\ known_classes' = r.known_classes
    /\ last' = [fn |-> name, val |-> n, ret |-> r.ret, exc |-> r.exc,
                pre_ids |-> known_ids, pre_classes |-> known_classes]
    /\ numbered' =
         IF Rewrote(name, r)
         THEN Append(numbered, [cls |-> FigClass(n), id |-> FigId(n),
                                label |-> r.known_ids[FigId(n)]])
         ELSE numbered
    /\ pc' = IF r.exc # "" THEN "error" ELSE pc
    /\ UNCHANGED <<program, fmt, meta>>

\* First walk: the next node of the document is read and handed to the
\* first action.
ReadNode(n, max) ==
    /\ pc = "walk" /\ pass = 1 /\ Len(doc) < max
    /\ \E r \in {Call(Actions[1], n)} :
          /\ Visit(Actions[1], n, r)
          /\ tree' = IF r.exc # "" THEN tree ELSE tree \o Splice(n, r.ret)
    /\ doc' = Append(doc, n)
    /\ UNCHANGED <<pass, pos>>

FirstWalk == \E n \in DocNodes(program) : ReadNode(n, MaxDoc)

\* The document ends: the second action starts at the top of the tree.
EndFirstWalk ==
    /\ pc = "walk" /\ pass = 1
    /\ pass' = 2 /\ pos' = 1
    /\ UNCHANGED <<program, fmt, meta, known_ids, known_classes, doc, tree,
                   pc, last, numbered>>

SecondWalk ==
    /\ pc = "walk" /\ pass = 2 /\ pos <= Len(tree)
    /\ \E r \in {Call(Actions[2], tree[pos])} :
          LET n == tree[pos]
              out == Splice(n, r.ret)
          IN /\ Visit(Actions[2], n, r)
             /\ tree' = IF r.exc # "" THEN tree
                        ELSE SubSeq(tree, 1, pos - 1) \o out
                             \o SubSeq(tree, pos + 1, Len(tree))
             /\ pos' = IF r.exc # "" THEN pos ELSE pos + Len(out)
    /\ UNCHANGED <<doc, pass>>

Finish ==
    /\ pc = "walk" /\ pass = 2 /\ pos > Len(tree)
    /\ pc' = "done"
    /\ UNCHANGED <<program, fmt, meta, known_ids, known_classes, doc, tree,
                   pass, pos, last, numbered>>

NoCall == [fn |-> "", val |-> None, ret |-> None, exc |-> "",
           pre_ids |-> <<>>, pre_classes |-> <<>>]

\* known_ids = {} and known_classes = {} at import; the script never reads
\* meta, so its runs take the empty metadata.
Init ==
    /\ program \in {"package", "script"}
    /\ fmt \in Formats
    /\ meta \in Metas
    /\ program = "script" => meta = NoMeta
    /\ known_ids = <<>>
    /\ known_classes = <<>>
    /\ doc = <<>>
    /\ tree = <<>>
    /\ pass = 1
    /\ pos = 1
    /\ pc = "walk"
    /\ last = NoCall
    /\ numbered = <<>>

Next == FirstWalk \/ EndFirstWalk \/ SecondWalk \/ Finish

Spec == Init /\ [][Next]_vars

\* The layout specification: the package's process_images on figures that
\* carry every combination of the layout keys.
LayoutWalk == \E n \in LayoutFigures : ReadNode(n, MaxLayoutFigs)

InitLayout == Init /\ program = "package"

NextLayout == LayoutWalk

SpecLayout == InitLayout /\ [][NextLayout]_vars

-----------------------------------------------------------------------------
(* Properties *)

\* The decimal numerals the properties expect, written out.
Decimal == <<"1", "2", "3", "4", "5", "6", "7", "8", "9">>

\* The last call was process_images and returned a replacement.
LastRewrote == Rewrote(last.fn, last)

\* The last call was the package's process_images on a Figure node.
LastOnFigure == last.fn = "process_images" /\ last.val.t = "Figure"

LastImageAttrs == last.val.content[1].xs[1].attrs

SameClassUpTo(k) == {j \in 1..k : numbered[j].cls = numbered[k].cls}

\* C1: the k-th rewritten figure of a class is labelled str(k) in
\* known_ids, whatever figures of other classes come between, and while the
\* run goes on each class counter equals the number of figures of that
\* class rewritten so far (so it starts at 1 and grows by exactly 1).
C1_SequentialPerClass ==
    /\ \A k \in 1..Len(numbered) :
          numbered[k].label = Decimal[Cardinality(SameClassUpTo(k))]
    /\ LastRewrote =>
          known_ids[FigId(last.val)] = numbered[Len(numbered)].label
    /\ pc # "error" =>
          /\ DOMAIN known_classes =
                {numbered[k].cls : k \in 1..Len(numbered)}
          /\ \A c \in DOMAIN known_classes :
                known_classes[c] =
                   Cardinality({j \in 1..Len(numbered) : numbered[j].cls = c})

\* Three figures rewritten, a chart between two schemes: the second scheme
\* is number 2.
C1_Witness ==
    /\ Len(numbered) = 3
    /\ numbered[1].cls = "scheme" /\ numbered[2].cls = "chart"
    /\ numbered[3].cls = "scheme" /\ numbered[3].label = "2"
    /\ LastRewrote /\ known_ids[FigId(last.val)] = "2"

\* C2: parse_refs is called only in the second walk, after process_images
\* has been applied to the whole document, with every numbered figure's id
\* in the registry; so at the end of a non-LaTeX run every citation of a
\* registered id_tag, before or after its figure, has become the label
\* the registry holds for it.
C2_TwoPassOrdering ==
    /\ last.fn = "parse_refs" =>
          /\ pass = 2
          /\ \A k \in 1..Len(numbered) : numbered[k].id \in DOMAIN last.pre_ids
    /\ (pc = "done" /\ fmt \notin {"latex", "pdf"}) =>
          /\ Len(tree) = Len(doc)
          /\ \A i \in 1..Len(doc) :
                (/\ doc[i].t = "Cite"
                 /\ RefMatches(doc[i].text)
                 /\ Join(RefGroup(doc[i].text)) \in DOMAIN known_ids)
                => tree[i] = Str(known_ids[Join(RefGroup(doc[i].text))])

\* A citation before the figure and one after it both became "1".
C2_Witness ==
    /\ pc = "done" /\ fmt = "html" /\ Len(doc) = 3
    /\ doc[1] = Cite(<<"@", "r", "x", "1">>)
    /\ doc[2].t = "Figure" /\ doc[2].attrs.id = rx1
    /\ doc[3] = Cite(<<"@", "r", "x", "1">>)
    /\ tree[1] = Str("1") /\ tree[3] = Str("1")

\* C3: when the citation text does not match the pattern, or its id_tag is
\* not a key of known_ids, parse_refs returns no replacement, raises
\* nothing, leaves the node in the tree as it was and leaves both
\* dictionaries unchanged, whatever the format.
C3_UnknownCiteUntouched ==
    (/\ last.fn = "parse_refs"
     /\ last.val.t = "Cite"
     /\ \/ ~RefMatches(last.val.text)
        \/ Join(RefGroup(last.val.text)) \notin DOMAIN last.pre_ids)
    => /\ last.ret = None
       /\ last.exc = ""
       /\ tree[pos - 1] = last.val
       /\ known_ids = last.pre_ids
       /\ known_classes = last.pre_classes

\* An ordinary citation met while the registry holds figures.
C3_Witness ==
    /\ last.fn = "parse_refs"
    /\ last.val = Cite(<<"@", "k", "9">>)
    /\ last.pre_ids # <<>>
    /\ fmt = "latex"
    /\ tree[pos - 1] = last.val

\* The registered ids that a citation text names in the form @id or [@id]
\* (empty when the text has neither form or names no registered id).
NamedId(text, ids) ==
    LET n == Len(text)
        hit == {id \in DOMAIN ids :
                  \/ n >= 1 /\ text[1] = "@" /\ Join(SubSeq(text, 2, n)) = id
                  \/ /\ n >= 3 /\ text[1] = "[" /\ text[2] = "@"
                     /\ text[n] = "]"
                     /\ Join(SubSeq(text, 3, n - 1)) = id}
    IN hit

\* C4: a citation @id or [@id] of a registered id becomes \ref{id} in the
\* raw format for latex and pdf, and otherwise a Str holding the label
\* recorded for id: the decimal number of the last figure numbered under
\* that id.
C4_KnownCiteReplaced ==
    (last.fn = "parse_refs" /\ last.val.t = "Cite") =>
        \A id \in NamedId(last.val.text, last.pre_ids) :
            IF fmt \in {"latex", "pdf"}
            THEN last.ret = RawInline(fmt, "\\ref{" \o id \o "}")
            ELSE /\ last.ret = Str(last.pre_ids[id])
                 /\ \A k \in 1..Len(numbered) :
                       (/\ numbered[k].id = id
                        /\ \A j \in (k + 1)..Len(numbered) :
                              numbered[j].id # id)
                       => last.ret =
                            Str(Decimal[Cardinality(SameClassUpTo(k))])

\* [@rx2] resolved to the second figure of its class.
C4_Witness ==
    /\ last.fn = "parse_refs"
    /\ last.val = Cite(<<"[", "@", "r", "x", "2", "]">>)
    /\ fmt = "html"
    /\ last.ret = Str("2")

\* C5: for latex and pdf a figure with lpos and without wwidth is rendered
\* as \begin{<class><suffix>}[<lpos>].
C5_ExplicitPlacement ==
    (/\ LastOnFigure /\ LastRewrote /\ fmt \in {"latex", "pdf"}
     /\ HasKey(LastImageAttrs.kvs, "lpos")
     /\ ~HasKey(LastImageAttrs.kvs, "wwidth"))
    => last.ret.xs[1] =
         RawInline(fmt, "\n\\begin{"
                        \o Join(LastImageAttrs.classes[1])
                        \o (IF HasKey(LastImageAttrs.kvs, "lts")
                            THEN Join(GetKey(LastImageAttrs.kvs, "lts"))
                            ELSE "")
                        \o "}[" \o Join(GetKey(LastImageAttrs.kvs, "lpos"))
                        \o "]\n\\centering\n\\includegraphics{"
                        \o Join(last.val.content[1].xs[1].target[1]) \o "}")

\* The template's indentation, written out.
Spaces24 == "                        "

\* Some value holds a line break.
BreaksLine(values) ==
    \E v \in values : \E i \in 1..Len(v) : v[i] = "\n"

\* C6: for latex and pdf, a figure with wwidth (with or without lpos) is a
\* wrapfloat environment of class+lts, wpos (or "r") and the wwidth value;
\* a figure with neither wwidth nor lpos is a class-named environment with
\* no placement specifier.  The lines of each block carry no indentation,
\* unless a value written into the block holds a line break: then they
\* keep the indentation of the template.
C6_WrapFirstDefaultLast ==
    (LastOnFigure /\ LastRewrote /\ fmt \in {"latex", "pdf"}) =>
        LET kvs == LastImageAttrs.kvs
            lts == IF HasKey(kvs, "lts") THEN GetKey(kvs, "lts") ELSE <<>>
            env == Join(LastImageAttrs.classes[1] \o lts)
            wpos == IF HasKey(kvs, "wpos") THEN GetKey(kvs, "wpos")
                    ELSE <<"r">>
            file == last.val.content[1].xs[1].target[1]
            id == last.val.attrs.id
            xs == last.ret.xs
            In(values) == IF BreaksLine(values) THEN Spaces24 ELSE ""
        IN /\ last.ret.t = "Para"
           /\ HasKey(kvs, "wwidth") =>
                LET b == In({LastImageAttrs.classes[1], lts, wpos,
                             GetKey(kvs, "wwidth"), file})
                    e == In({id})
                IN /\ xs[1] = RawInline(fmt,
                          "\n" \o b \o "\\begin{wrapfloat}{" \o env \o "}{"
                          \o Join(wpos) \o "}{" \o Join(GetKey(kvs, "wwidth"))
                          \o "}\n" \o b \o "\\centering\n" \o b
                          \o "\\includegraphics{" \o Join(file) \o "}\n")
                   /\ xs[Len(xs)] = RawInline(fmt,
                          "\n" \o e \o "\\label{" \o Join(id)
                          \o "}\n" \o e \o "\\end{wrapfloat}\n")
           /\ (~HasKey(kvs, "wwidth") /\ ~HasKey(kvs, "lpos")) =>
                LET b == In({LastImageAttrs.classes[1], lts, file})
                    e == In({LastImageAttrs.classes[1], lts, id})
                IN /\ xs[1] = RawInline(fmt,
                          "\n" \o b \o "\\begin{" \o env
                          \o "}\n" \o b \o "\\centering\n" \o b
                          \o "\\includegraphics{" \o Join(file) \o "}")
                   /\ xs[Len(xs)] = RawInline(fmt,
                          "\n" \o e \o "\\label{" \o Join(id)
                          \o "}\n" \o e \o "\\end{" \o env \o "}\n")

\* A figure with both wwidth and lpos, a suffix and no wpos, for pdf.
C6_Witness ==
    /\ LastOnFigure /\ LastRewrote /\ fmt = "pdf"
    /\ HasKey(LastImageAttrs.kvs, "wwidth")
    /\ HasKey(LastImageAttrs.kvs, "lpos")
    /\ HasKey(LastImageAttrs.kvs, "lts")
    /\ ~HasKey(LastImageAttrs.kvs, "wpos")
    /\ last.ret.xs[1] = RawInline("pdf",
           "\n\\begin{wrapfloat}{scheme*}{r}{5cm}\n\\centering\n\\includegraphics{a.pdf}\n")

\* C7: a figure node without a class (a flat Image with an empty class
\* list, or a Figure whose image has an empty class list) is passed
\* through: nothing returned, nothing raised, no counter and no id added.
C7_UnclassedPassThrough ==
    (/\ last.fn = "process_images"
     /\ \/ last.val.t = "Image" /\ last.val.attrs.classes = <<>>
        \/ last.val.t = "Figure" /\ LastImageAttrs.classes = <<>>)
    => /\ last.ret = None
       /\ last.exc = ""
       /\ known_ids = last.pre_ids
       /\ known_classes = last.pre_classes

\* The class names of the inputs, capitalized, written out.
CapitalizedName(cls) ==
    IF cls = "scheme" THEN "Scheme"
    ELSE IF cls = "chart" THEN "Chart"
    ELSE "Figure"

\* C8: for every other format the rewritten figure's caption is
\* label ++ number ++ suffix ++ the figure's original caption, with the
\* fig-abbr label of the class or bold "<Class> ", the fig-abbr suffix or
\* bold ". ", and the number just assigned in the style of the label's
\* first element.
C8_DecoratedCaption ==
    (LastOnFigure /\ LastRewrote /\ fmt \notin {"latex", "pdf"}) =>
        LET cls == Join(LastImageAttrs.classes[1])
            declared == "fig-abbr" \in DOMAIN meta
            label == IF declared /\ cls \in DOMAIN meta["fig-abbr"].c
                     THEN meta["fig-abbr"].c[cls].c
                     ELSE <<Strong(<<Str(CapitalizedName(cls) \o " ")>>)>>
            suffix == IF declared /\ "suffix" \in DOMAIN meta["fig-abbr"].c
                      THEN meta["fig-abbr"].c["suffix"].c
                      ELSE <<Strong(<<Str(". ")>>)>>
            text == Decimal[known_classes[cls]]
            number == IF label[1].t = "Strong" THEN Strong(<<Str(text)>>)
                      ELSE IF label[1].t = "Emph" THEN Emph(<<Str(text)>>)
                      ELSE Str(text)
            original == last.val.caption[2][1].xs
            expected == label \o <<number>> \o suffix \o original
        IN /\ last.ret.t = "Figure"
           /\ last.ret.caption = <<None, <<Plain(expected)>>>>

\* C9: for latex and pdf a classed figure whose caption block list is
\* empty is rewritten without error and no \caption{ command is emitted.
C9_EmptyCaptionOmitted ==
    (/\ LastOnFigure /\ fmt \in {"latex", "pdf"}
     /\ LastImageAttrs.classes # <<>>
     /\ last.val.attrs.id # <<>>
     /\ last.val.caption = EmptyCaption)
    => /\ last.exc = ""
       /\ last.ret # None
       /\ \A i \in 1..Len(last.ret.xs) :
             last.ret.xs[i] # RawInline(fmt, "\\caption{")

\* C10: a Figure with a class and a caption but an empty identifier is
\* processed without an exception, and the registry is never left with
\* the counter incremented and the rewrite aborted.
C10_EmptyIdNoFatal ==
    (/\ LastOnFigure
     /\ LastImageAttrs.classes # <<>>
     /\ last.val.caption = FullCaption
     /\ last.val.attrs.id = <<>>)
    => /\ last.exc = ""
       /\ last.ret = None => known_classes = last.pre_classes

====
